---- MODULE Spec2Model ----
(***************************************************************************)
(* A model of go-sdk-daprsvc: the invocation interceptor, the pub-sub      *)
(* registry, the router built by HttpHandler(), the cloud-event decoder    *)
(* and the encoder of a message handler's result.                          *)
(*                                                                         *)
(* Strings of the program are TLA+ strings.  A URL path is the sequence of *)
(* its segments ("/message/a/b" is <<"message","a","b">>, "/" is <<>>).    *)
(* A byte string (request body, Message.Data) is a record                  *)
(*   [kind, text, env]: kind says what the bytes are to a JSON parser,     *)
(*   text is their content when they are opaque, env the members of the    *)
(*   JSON object when they are one (a function from member name to the     *)
(*   member's string value).                                               *)
(***************************************************************************)
EXTENDS Integers, Sequences, FiniteSets, TLC

(***************************************************************************)
(* Bounds of the model.                                                    *)
(***************************************************************************)
\* NewPubsub calls made by the application.
MaxPubsubs == 2
\* RegisterMessageHandler calls made by the application.
MaxEntries == 2

\* Names of pub-sub components; the two differ in letter case only.
Names == {"servicebus", "Servicebus"}
\* Topics.
Topics == {"order", "test-topic"}
\* Handlers the application may pass to SetInvocationHandler.
Handlers == {"mux1", "mux2"}
\* What a registered invocation handler may write.
HandlerStatuses == {200, 404}
HandlerBodies == {"Hello", ""}

(***************************************************************************)
(* Strings: the few string functions the code uses, on the strings of the  *)
(* model.                                                                  *)
(***************************************************************************)
\* strings.ToLower and the case folding of httprouter's
\* findCaseInsensitivePath, on the names of the model.
ToLower(s) == IF s = "Servicebus" THEN "servicebus" ELSE s

LowerPath(p) == [i \in DOMAIN p |-> ToLower(p[i])]

\* Header names of the model, in the canonical form net/http gives them.
MetadataHeaders == {"Metadata.Tenant", "Metadata.Ttl"}

\* strings.HasPrefix(strings.ToLower(key), "metadata.")
HasMetadataPrefix(key) == key \in MetadataHeaders

\* regexDataContentTypeJson: ^[^/]+/([^/]+\+)?json$
JsonContentTypes == {"application/json", "application/cloudevents+json", "application/ld+json"}

regexDataContentTypeJsonMatch(ct) == ct \in JsonContentTypes

\* base64.StdEncoding.DecodeString on the strings of the model: the decoded
\* bytes, or an error for anything that is not well-formed base64.
Base64Table == [x \in {"aGVsbG8="} |-> "hello"]

Base64Decode(s) ==
    IF s \in DOMAIN Base64Table
    THEN [err |-> FALSE, bytes |-> Base64Table[s]]
    ELSE [err |-> TRUE, bytes |-> ""]

\* time.Parse(time.RFC3339, t) under functils.DefaultOnErr: the zero time on
\* an error.
ZeroTime == "0001-01-01T00:00:00Z"

ParseTimeOrDefault(t) == IF t = "2023-04-05T06:07:08Z" THEN t ELSE ZeroTime

(***************************************************************************)
(* Byte strings.                                                           *)
(***************************************************************************)
NoMembers == [x \in {} |-> ""]

\* Opaque bytes.
Bytes(s) == [kind |-> "bytes", text |-> s, env |-> NoMembers]

\* The bytes of a JSON object with the string members env.
JsonObject(env) == [kind |-> "object", text |-> "", env |-> env]

\* Other bodies: the literal null, a JSON array, an object whose "id" is a
\* number, and a body whose read fails.
JsonNull == [kind |-> "null", text |-> "null", env |-> NoMembers]
JsonArray == [kind |-> "array", text |-> "[1]", env |-> NoMembers]
JsonBadMember == [kind |-> "badmember", text |-> "{\"id\":1}", env |-> NoMembers]
UnreadableBody == [kind |-> "readerr", text |-> "", env |-> NoMembers]

(***************************************************************************)
(* Errors and message results.                                             *)
(***************************************************************************)
\* A Go error value: nil, or an error with a message.
NilError == [isNil |-> TRUE, msg |-> ""]
NewError(m) == [isNil |-> FALSE, msg |-> m]

messageSuccess == 0
messageRetry == 1
messageDrop == 2

\* The methods of messageResultImpl.
Success(mri) == mri.result = messageSuccess
Retry(mri) == mri.result = messageRetry
Drop(mri) == mri.result = messageDrop

MessageResultSuccess == [err |-> NilError, result |-> messageSuccess]

MessageResultRetry(err) ==
    [err |-> IF err.isNil THEN NewError("") ELSE err, result |-> messageRetry]

\* As MessageResultDrop, but the result is a value none of Success(), Retry()
\* and Drop() answers to.
MessageResultDropUnset(err) ==
    [err |-> IF err.isNil THEN NewError("") ELSE err, result |-> messageDrop + 1]

MessageResultDrop(err) ==
    [err |-> IF err.isNil THEN NewError("") ELSE err, result |-> messageDrop]

\* What a callback does to produce its result: the constructor it calls and
\* the error it passes.
CallbackReturns ==
    {[ctor |-> "Success", arg |-> NilError]}
    \cup {[ctor |-> c, arg |-> e] :
            c \in {"Retry", "Drop"},
            e \in {NilError, NewError("Something went wrong."), NewError("")}}

ResultOf(ret) ==
    IF ret.ctor = "Success" THEN MessageResultSuccess
    ELSE IF ret.ctor = "Retry" THEN MessageResultRetry(ret.arg)
    ELSE MessageResultDrop(ret.arg)

(***************************************************************************)
(* Requests, responses and what ran while a request was served.            *)
(***************************************************************************)
\* http.Header.Get: the first value of the header, "" when it is absent.
HeaderGet(h, key) == IF key \in DOMAIN h THEN h[key][1] ELSE ""

NoHeaders == [x \in {} |-> <<>>]

EmptyBody == [kind |-> "empty", text |-> <<>>, items |-> <<>>]
TextBody(pieces) == [kind |-> "text", text |-> pieces, items |-> <<>>]
\* A JSON object written member by member: the <<name, value>> pairs in order.
ObjectBody(members) == [kind |-> "object", text |-> <<>>, items |-> members]
ArrayBody(elements) == [kind |-> "array", text |-> <<>>, items |-> elements]

\* The response a client receives.  Status 0: the handler panicked before it
\* wrote anything, and the server drops the connection.
Response(status, contentType, body) ==
    [Status |-> status, ContentType |-> contentType, Marker |-> "",
     Location |-> <<>>, Allow |-> "", Body |-> body, Panicked |-> FALSE]

PanicResponse ==
    [Status |-> 0, ContentType |-> "", Marker |-> "",
     Location |-> <<>>, Allow |-> "", Body |-> EmptyBody, Panicked |-> TRUE]

\* What ran: the calls of the invocation handler, how often the router was called,
\* whether a message handler started on the request, and the callbacks called
\* (with the Message each was given and what it returned).
NoTrace == [Invocations |-> <<>>, Routed |-> 0, Decoded |-> FALSE, Calls |-> <<>>]

Served(w, t) == [w |-> w, t |-> t]

(***************************************************************************)
(* invocation.go                                                           *)
(***************************************************************************)
NilHandler == "nil"

mandatoryHeaders == {"Dapr-Caller-App-Id", "Dapr-Callee-App-Id"}

\* As detectInvocationRequest, but a header with an empty value does not count.
detectInvocationRequestNonEmpty(r) ==
    \A key \in mandatoryHeaders : key \in DOMAIN r.Header /\ r.Header[key][1] # ""

detectInvocationRequest(r) == \A key \in mandatoryHeaders : key \in DOMAIN r.Header

\* http.NotFound
NotFound == Response(404, "text/plain; charset=utf-8", TextBody(<<"404 page not found">>))

\* A registered invocation handler serving r: it writes the status hs and the
\* body hb.
HandlerServe(h, r, hs, hb) ==
    Response(hs, "text/plain; charset=utf-8", IF hb = "" THEN EmptyBody ELSE TextBody(<<hb>>))

(***************************************************************************)
(* events.go: the registry.                                                *)
(***************************************************************************)
PubsubOptions == [RawPayload : BOOLEAN, NoCloudEvent : BOOLEAN]

pubsubEntry(ps, topic, options, handler) ==
    [pubsubName |-> ps.name, topic |-> topic, options |-> options, messageHandler |-> handler]

\* fmt.Sprintf("/%s/%s", entry.pubsubName, entry.topic)
constructRoute(entry) == <<entry.pubsubName, entry.topic>>

messageHandlerRoutePrefix == <<"message">>

\* The pubsub objects the map holds, in one of the orders a range over the
\* map may take: a sequence of object ids without repetition.
MapOrders(pubsubs) ==
    LET ids == {pubsubs[n] : n \in DOMAIN pubsubs}
    IN  {o \in [1..Cardinality(ids) -> ids] : \A i, j \in DOMAIN o : i # j => o[i] # o[j]}

RECURSIVE Flatten(_)
Flatten(ss) == IF ss = <<>> THEN <<>> ELSE Head(ss) \o Flatten(Tail(ss))

\* The entries of every pubsub of the map, ranged over in the order o.
EntriesInOrder(objects, o) == Flatten([i \in DOMAIN o |-> objects[o[i]].entries])

pubsubEntriesWithRoutes(objects, o) ==
    LET es == EntriesInOrder(objects, o)
    IN  [i \in DOMAIN es |-> [route |-> constructRoute(es[i]), entry |-> es[i]]]

\* As Descriptor, but the metadata follows the NoCloudEvent option.
DescriptorByNoCloudEvent(entry, routePrefix) ==
    [pubsubname |-> entry.pubsubName,
     topic |-> entry.topic,
     route |-> routePrefix \o constructRoute(entry),
     metadata |-> IF entry.options.NoCloudEvent THEN <<<<"rawPayload", "true">>>> ELSE <<>>]

Descriptor(entry, routePrefix) ==
    [pubsubname |-> entry.pubsubName,
     topic |-> entry.topic,
     route |-> routePrefix \o constructRoute(entry),
     metadata |-> IF entry.options.RawPayload THEN <<<<"rawPayload", "true">>>> ELSE <<>>]

writePubsubConfigData(objects, o, routePrefix) ==
    LET es == EntriesInOrder(objects, o)
    IN  ArrayBody([i \in DOMAIN es |-> Descriptor(es[i], routePrefix)])

(***************************************************************************)
(* events.go: decoding a request into a Message.                           *)
(***************************************************************************)
metadataFromHeader(h) ==
    [key \in {k \in DOMAIN h : HasMetadataPrefix(k)} |-> h[key][1]]

ZeroFields == [Source |-> "", Type |-> "", Schema |-> "", Subject |-> "", Timestamp |-> ZeroTime]
ZeroTrace == [Id |-> "", Parent |-> "", State |-> ""]

ContainsJsonData(msg) == msg.ContentType = "" \/ regexDataContentTypeJsonMatch(msg.ContentType)

\* A pointer field of the cloud-event struct.
NilPtr == [isNil |-> TRUE, v |-> ""]
Ptr(s) == [isNil |-> FALSE, v |-> s]
DefaultOnNil(p) == IF p.isNil THEN "" ELSE p.v

StringMember(env, k) == IF k \in DOMAIN env THEN env[k] ELSE ""
PointerMember(env, k) == IF k \in DOMAIN env THEN Ptr(env[k]) ELSE NilPtr

\* The cloud-event struct after json.Unmarshal of an object with members env:
\* a member that is absent leaves the field at its zero value.
cloudEventOf(env) ==
    [Id |-> StringMember(env, "id"),
     Source |-> StringMember(env, "source"),
     Specversion |-> StringMember(env, "specversion"),
     Type |-> StringMember(env, "type"),
     Datacontenttype |-> PointerMember(env, "datacontenttype"),
     Dataschema |-> PointerMember(env, "dataschema"),
     Subject |-> PointerMember(env, "subject"),
     Time |-> PointerMember(env, "time"),
     Data |-> PointerMember(env, "data"),
     Data_base64 |-> PointerMember(env, "data_base64"),
     Pubsubname |-> StringMember(env, "pubsubname"),
     Topic |-> StringMember(env, "topic"),
     Traceid |-> StringMember(env, "traceid"),
     Traceparent |-> StringMember(env, "traceparent"),
     Tracestate |-> StringMember(env, "tracestate")]

\* json.Unmarshal(body, &cloudEvent): null leaves the struct untouched; an
\* object fills it; anything else is an error.
Unmarshal(body) ==
    IF body.kind = "object" THEN [err |-> FALSE, cloudEvent |-> cloudEventOf(body.env)]
    ELSE IF body.kind = "null" THEN [err |-> FALSE, cloudEvent |-> cloudEventOf(NoMembers)]
    ELSE [err |-> TRUE, cloudEvent |-> cloudEventOf(NoMembers)]

DecodeOk(msg) == [outcome |-> "ok", reason |-> <<>>, msg |-> msg]
DecodeFail(msg, reason) == [outcome |-> "fail", reason |-> reason, msg |-> msg]
DecodePanic(msg) == [outcome |-> "panic", reason |-> <<>>, msg |-> msg]

\* As ResolveData, but a content type that is not JSON and comes without
\* data_base64 falls back to the body instead of failing.
ResolveDataLenient(cloudEvent, msg) ==
    IF ContainsJsonData(msg)
    THEN IF cloudEvent.Data.isNil
         THEN DecodePanic(msg)
         ELSE DecodeOk([msg EXCEPT !.Data = Bytes(cloudEvent.Data.v)])
    ELSE IF ~cloudEvent.Data_base64.isNil
         THEN LET d == Base64Decode(cloudEvent.Data_base64.v)
              IN  IF d.err
                  THEN DecodeFail(msg, <<"Failed to decode cloud-event base64 data.">>)
                  ELSE DecodeOk([msg EXCEPT !.Data = Bytes(d.bytes)])
         ELSE DecodeOk(msg)

\* Lines 332-346: the data of the cloud event.
ResolveData(cloudEvent, msg) ==
    IF ContainsJsonData(msg)
    THEN IF cloudEvent.Data.isNil
         THEN DecodePanic(msg)
         ELSE DecodeOk([msg EXCEPT !.Data = Bytes(cloudEvent.Data.v)])
    ELSE IF ~cloudEvent.Data_base64.isNil
         THEN LET d == Base64Decode(cloudEvent.Data_base64.v)
              IN  IF d.err
                  THEN DecodeFail(msg, <<"Failed to decode cloud-event base64 data.">>)
                  ELSE DecodeOk([msg EXCEPT !.Data = Bytes(d.bytes)])
         ELSE DecodeFail(msg, <<"Cloud-event data does not match content type.">>)

\* Lines 288-359: the request as a cloud event.
DecodeCloudEvent(entry, r, msg) ==
    LET contentType == HeaderGet(r.Header, "Content-Type")
        u == Unmarshal(r.Body)
        cloudEvent == u.cloudEvent
        msg1 == [msg EXCEPT !.Id = cloudEvent.Id,
                            !.ContentType = DefaultOnNil(cloudEvent.Datacontenttype)]
        d == ResolveData(cloudEvent, msg1)
    IN  IF contentType # "application/cloudevents+json"
        THEN DecodeFail(msg, <<"Message does not have a cloud-event content-type: ", contentType>>)
        ELSE IF u.err
        THEN DecodeFail(msg, <<"Failed to unmarshal cloud-event json">>)
        ELSE IF cloudEvent.Specversion # "1.0"
        THEN DecodeFail(msg, <<"Unknown cloud-event spec version '", cloudEvent.Specversion, "'.">>)
        ELSE IF cloudEvent.Pubsubname # entry.pubsubName \/ cloudEvent.Topic # entry.topic
        THEN DecodeFail(msg, <<"Message arrived at wrong destination (", entry.pubsubName, "/",
                               entry.topic, ") instead of (", cloudEvent.Pubsubname, "/",
                               cloudEvent.Topic, ").">>)
        ELSE IF d.outcome # "ok"
        THEN d
        ELSE DecodeOk([d.msg EXCEPT
                 !.Fields = [Source |-> cloudEvent.Source,
                             Type |-> cloudEvent.Type,
                             Schema |-> DefaultOnNil(cloudEvent.Dataschema),
                             Subject |-> DefaultOnNil(cloudEvent.Subject),
                             Timestamp |-> ParseTimeOrDefault(DefaultOnNil(cloudEvent.Time))],
                 !.Trace = [Id |-> cloudEvent.Traceid,
                            Parent |-> cloudEvent.Traceparent,
                            State |-> cloudEvent.Tracestate]])

\* As Decode, but RawPayload too makes the body the data as it is.
DecodeRawPayloadSkips(entry, r) ==
    LET msg == [PubsubName |-> entry.pubsubName,
                Topic |-> entry.topic,
                Id |-> "",
                Data |-> r.Body,
                ContentType |-> "",
                Metadata |-> metadataFromHeader(r.Header),
                Fields |-> ZeroFields,
                Trace |-> ZeroTrace]
    IN  IF r.Body.kind = "readerr"
        THEN DecodeFail(msg, <<"Failed to read message body">>)
        ELSE IF ~entry.options.NoCloudEvent /\ ~entry.options.RawPayload
        THEN DecodeCloudEvent(entry, r, msg)
        ELSE DecodeOk(msg)

\* As Decode, but the request is taken as a cloud event whatever the
\* NoCloudEvent option says.
DecodeAlwaysCloudEvent(entry, r) ==
    LET msg == [PubsubName |-> entry.pubsubName,
                Topic |-> entry.topic,
                Id |-> "",
                Data |-> r.Body,
                ContentType |-> "",
                Metadata |-> metadataFromHeader(r.Header),
                Fields |-> ZeroFields,
                Trace |-> ZeroTrace]
    IN  IF r.Body.kind = "readerr"
        THEN DecodeFail(msg, <<"Failed to read message body">>)
        ELSE DecodeCloudEvent(entry, r, msg)

\* Lines 270-359: the Message the callback is to get, or the failure.
Decode(entry, r) ==
    LET msg == [PubsubName |-> entry.pubsubName,
                Topic |-> entry.topic,
                Id |-> "",
                Data |-> r.Body,
                ContentType |-> "",
                Metadata |-> metadataFromHeader(r.Header),
                Fields |-> ZeroFields,
                Trace |-> ZeroTrace]
    IN  IF r.Body.kind = "readerr"
        THEN DecodeFail(msg, <<"Failed to read message body">>)
        ELSE IF ~entry.options.NoCloudEvent
        THEN DecodeCloudEvent(entry, r, msg)
        ELSE DecodeOk(msg)

(***************************************************************************)
(* events.go: the response.                                                *)
(***************************************************************************)
messageParseFail(entry, reason) ==
    Response(400, "text/plain",
             TextBody(<<"Failed to parse event message for pubsub '", entry.pubsubName,
                        "' on topic '", entry.topic, "': ">> \o reason))

ErrorMember(err) == IF ~err.isNil THEN <<<<"error", err.msg>>>> ELSE <<>>

\* As EncodeResult, but a Drop is answered with the status of a Retry.
EncodeResultDropAsRetry(result) ==
    IF Success(result)
    THEN Response(200, "application/json", ObjectBody(<<<<"status", "SUCCESS">>>>))
    ELSE IF Retry(result)
    THEN Response(500, "application/json",
                  ObjectBody(<<<<"status", "RETRY">>>> \o ErrorMember(result.err)))
    ELSE Response(500, "application/json",
                  ObjectBody(<<<<"status", "DROP">>>> \o ErrorMember(result.err)))

\* Lines 363-397: the switch on the callback's result.
EncodeResult(result) ==
    IF Success(result)
    THEN Response(200, "application/json", ObjectBody(<<<<"status", "SUCCESS">>>>))
    ELSE IF Retry(result)
    THEN Response(500, "application/json",
                  ObjectBody(<<<<"status", "RETRY">>>> \o ErrorMember(result.err)))
    ELSE IF Drop(result)
    THEN Response(400, "application/json",
                  ObjectBody(<<<<"status", "DROP">>>> \o ErrorMember(result.err)))
    ELSE Response(400, "text/plain", TextBody(<<"Invalid message handler result.">>))

\* The handler of one subscription serving r; ret is what the callback
\* returns when it is called.
makeEventMessageHandler(entry, r, ret) ==
    LET d == Decode(entry, r)
        t == [NoTrace EXCEPT !.Decoded = TRUE]
    IN  IF d.outcome = "fail" THEN Served(messageParseFail(entry, d.reason), t)
        ELSE IF d.outcome = "panic" THEN Served(PanicResponse, t)
        ELSE Served(EncodeResult(ResultOf(ret)),
                    [t EXCEPT !.Calls = <<[callback |-> entry.messageHandler,
                                           msg |-> d.msg, ret |-> ret]>>])

(***************************************************************************)
(* The router HttpHandler() builds (httprouter with its default settings)  *)
(* and the handler it returns.                                             *)
(***************************************************************************)
SubscribePath == <<"dapr", "subscribe">>

\* The routes of one method: GET has the discovery route, POST the message
\* routes.
Tree(routes, method) ==
    IF method = "GET" THEN {SubscribePath}
    ELSE IF method = "POST" THEN DOMAIN routes
    ELSE {}

\* http.Redirect
Redirect(r, target, code) ==
    [Response(code,
              IF r.Method = "GET" THEN "text/html; charset=utf-8" ELSE "",
              IF r.Method = "GET" THEN TextBody(<<"Moved Permanently">>) ELSE EmptyBody)
        EXCEPT !.Location = target]

MethodNotAllowed(allow) ==
    [Response(405, "text/plain; charset=utf-8", TextBody(<<"Method Not Allowed">>))
        EXCEPT !.Allow = allow]

\* GET /dapr/subscribe: reads the registry when the request is served.
SubscribeHandler(svc, c) ==
    Response(200, "application/json",
             writePubsubConfigData(svc.objects, c.order, messageHandlerRoutePrefix))

\* httprouter's Router.ServeHTTP after its redirects: the handler of the
\* route; 405 for a path that is a route of another method
\* (HandleMethodNotAllowed); not found for the rest.
RouterDispatch(svc, routes, r, c) ==
    LET tree == Tree(routes, r.Method)
        others == {m \in {"GET", "POST"} \ {r.Method} : r.Path \in Tree(routes, m)}
    IN  IF r.Path \in tree
        THEN IF r.Method = "GET"
             THEN Served(SubscribeHandler(svc, c), NoTrace)
             ELSE makeEventMessageHandler(routes[r.Path], r, c.ret)
        ELSE IF others # {}
        THEN Served(MethodNotAllowed(IF others = {"GET"} THEN "GET, OPTIONS" ELSE "OPTIONS, POST"),
                    NoTrace)
        ELSE Served(NotFound, NoTrace)

\* httprouter's Router.ServeHTTP.  A path that is no route of the method but
\* equals one when letter case is ignored is redirected to that route
\* (RedirectFixedPath), with 301 for GET and 307 or 308 (by the version of the
\* library) for other methods.
RouterServeHTTP(svc, routes, r, c) ==
    LET tree == Tree(routes, r.Method)
        fixed == {p \in tree : LowerPath(p) = LowerPath(r.Path)}
    IN  IF r.Path \notin tree /\ tree # {} /\ r.Path # <<>> /\ fixed # {}
        THEN Served(Redirect(r, CHOOSE p \in fixed : TRUE,
                             IF r.Method = "GET" THEN 301 ELSE c.code),
                    NoTrace)
        ELSE RouterDispatch(svc, routes, r, c)

\* The call of the registered invocation handler: what it wrote.
Invoked(h, c) == [handler |-> h, status |-> c.hs, body |-> c.hb]

\* As makeInvocationRequestInterceptor, but the marker header is set only
\* when a handler is registered.
InterceptorSkipsMarker(svc, routes, r, c) ==
    IF detectInvocationRequest(r)
    THEN IF svc.handler # NilHandler
         THEN Served([HandlerServe(svc.handler, r, c.hs, c.hb) EXCEPT !.Marker = "1"],
                     [NoTrace EXCEPT !.Invocations = <<Invoked(svc.handler, c)>>])
         ELSE Served(NotFound, NoTrace)
    ELSE LET s == RouterServeHTTP(svc, routes, r, c)
         IN  Served(s.w, [s.t EXCEPT !.Routed = 1])

\* As makeInvocationRequestInterceptor, but without a registered handler the
\* request goes to the router.
InterceptorFallsThrough(svc, routes, r, c) ==
    IF detectInvocationRequest(r) /\ svc.handler # NilHandler
    THEN Served([HandlerServe(svc.handler, r, c.hs, c.hb) EXCEPT !.Marker = "1"],
                [NoTrace EXCEPT !.Invocations = <<Invoked(svc.handler, c)>>])
    ELSE LET s == RouterServeHTTP(svc, routes, r, c)
         IN  Served(s.w, [s.t EXCEPT !.Routed = 1])

\* As makeInvocationRequestInterceptor, but the not-found response is written
\* whether or not a handler is registered.
InterceptorOverwrites(svc, routes, r, c) ==
    IF detectInvocationRequest(r)
    THEN IF svc.handler # NilHandler
         THEN Served([NotFound EXCEPT !.Marker = "1"],
                     [NoTrace EXCEPT !.Invocations = <<Invoked(svc.handler, c)>>])
         ELSE Served([NotFound EXCEPT !.Marker = "1"], NoTrace)
    ELSE LET s == RouterServeHTTP(svc, routes, r, c)
         IN  Served(s.w, [s.t EXCEPT !.Routed = 1])

\* The handler HttpHandler() returns, serving r.
makeInvocationRequestInterceptor(svc, routes, r, c) ==
    IF detectInvocationRequest(r)
    THEN IF svc.handler # NilHandler
         THEN Served([HandlerServe(svc.handler, r, c.hs, c.hb) EXCEPT !.Marker = "1"],
                     [NoTrace EXCEPT !.Invocations = <<Invoked(svc.handler, c)>>])
         ELSE Served([NotFound EXCEPT !.Marker = "1"], NoTrace)
    ELSE LET s == RouterServeHTTP(svc, routes, r, c)
         IN  Served(s.w, [s.t EXCEPT !.Routed = 1])

\* The routes router.POST is called with, in order; registering a path
\* twice makes httprouter panic.
HasDuplicateRoute(list) == \E i, j \in DOMAIN list : i # j /\ list[i].route = list[j].route

\* As RoutesOf, but the routes are registered without the "/message" prefix.
RoutesOfUnprefixed(list) ==
    [p \in {list[i].route : i \in DOMAIN list} |->
        (CHOOSE e \in {list[i] : i \in DOMAIN list} : e.route = p).entry]

RoutesOf(list) ==
    [p \in {messageHandlerRoutePrefix \o list[i].route : i \in DOMAIN list} |->
        (CHOOSE e \in {list[i] : i \in DOMAIN list} :
            messageHandlerRoutePrefix \o e.route = p).entry]

NoRoutes == [p \in {} |-> <<>>]

(***************************************************************************)
(* The inputs of the model.                                                *)
(***************************************************************************)
MessagePaths == {messageHandlerRoutePrefix \o <<n, t>> : n \in Names, t \in Topics}

Paths == {<<>>, SubscribePath} \cup MessagePaths

Methods == {"GET", "POST"}

RedirectCodes == {307, 308}

\* The envelope the tests post, addressed to (name, topic).
WellFormed(name, topic) ==
    [id |-> "1234-5678", source |-> "test-case", specversion |-> "1.0",
     type |-> "test-event", datacontenttype |-> "application/json",
     data |-> "{\"dummy\":123}", pubsubname |-> name, topic |-> topic]

CloudEventContentType == [x \in {"Content-Type"} |-> <<"application/cloudevents+json">>]

\* The body sent to a path: the well-formed envelope of a message route.
BodyFor(p) == IF p \in MessagePaths THEN JsonObject(WellFormed(p[2], p[3])) ELSE Bytes("")

\* The two invocation headers: each absent, empty or with a value.
InvocationHeaderSets ==
    UNION {[hs -> {<<"">>, <<"test">>}] : hs \in SUBSET mandatoryHeaders}

\* Requests of SpecInvocation: every method and path with every combination
\* of the invocation headers.
InvocationRequests ==
    {[Method |-> m, Path |-> p, Header |-> ih @@ CloudEventContentType, Body |-> BodyFor(p)] :
        m \in Methods, p \in Paths, ih \in InvocationHeaderSets}

\* Requests of Spec: every method and path, without invocation headers.
Requests ==
    {[Method |-> m, Path |-> p, Header |-> CloudEventContentType, Body |-> BodyFor(p)] :
        m \in Methods, p \in Paths}

\* The options the tests subscribe with.
TestOptions ==
    {[RawPayload |-> TRUE, NoCloudEvent |-> FALSE], [RawPayload |-> FALSE, NoCloudEvent |-> TRUE]}

\* What the callbacks of Spec and SpecInvocation return.
SomeReturns ==
    {[ctor |-> "Success", arg |-> NilError], [ctor |-> "Drop", arg |-> NewError("Client error.")]}

NoRequest == [Method |-> "", Path |-> <<>>, Header |-> NoHeaders, Body |-> Bytes("")]
NoResponse == Response(0, "", EmptyBody)

\* What the environment decides while a request is served: the order of the
\* range over the map, what the callback returns, the redirect status of the
\* router, and what the invocation handler writes.
DefaultChoice(svc) ==
    [order |-> CHOOSE o \in MapOrders(svc.pubsubs) : TRUE,
     ret |-> [ctor |-> "Success", arg |-> NilError],
     code |-> 307, hs |-> 200, hb |-> ""]

\* Only the choices the request can meet are varied.
ChoicesFor(svc, routes, r, rets) ==
    LET d == DefaultChoice(svc)
    IN  IF detectInvocationRequest(r)
        THEN {[d EXCEPT !.hs = hs, !.hb = hb] : hs \in HandlerStatuses, hb \in HandlerBodies}
        ELSE IF r.Method = "GET"
        THEN {[d EXCEPT !.order = o] : o \in MapOrders(svc.pubsubs)}
        ELSE IF r.Path \in DOMAIN routes
        THEN {[d EXCEPT !.ret = ret] : ret \in rets}
        ELSE {[d EXCEPT !.code = code] : code \in RedirectCodes}

(***************************************************************************)
(* The state.                                                              *)
(***************************************************************************)
VARIABLES
    pubsubs,    \* events.pubsubs: name -> id of the pubsub object
    objects,    \* every pubsub object made so far: [name, entries]
    handler,    \* invocation.handler
    built,      \* the handler HttpHandler() returned last: [state, routes, seen];
                \* seen is the service as it was when HttpHandler() was called
    nreg,       \* callbacks registered so far (the next callback is nreg + 1)
    req,        \* the request served last, NoRequest when none is outstanding
    resp,       \* its response
    trace       \* what ran to produce it

vars == <<pubsubs, objects, handler, built, nreg, req, resp, trace>>

Svc == [pubsubs |-> pubsubs, objects |-> objects, handler |-> handler]

Idle == req = NoRequest

\* The service before any call.
ZeroSvc == [pubsubs |-> [n \in {} |-> 0], objects |-> <<>>, handler |-> NilHandler]

NotBuilt == [state |-> "none", routes |-> NoRoutes, seen |-> ZeroSvc]

Init ==
    /\ pubsubs = [n \in {} |-> 0]
    /\ objects = <<>>
    /\ handler = NilHandler
    /\ built = NotBuilt
    /\ nreg = 0
    /\ req = NoRequest
    /\ resp = NoResponse
    /\ trace = NoTrace

(***************************************************************************)
(* The operations.                                                         *)
(***************************************************************************)
SetInvocationHandler(h) ==
    /\ Idle
    /\ handler' = h
    /\ UNCHANGED <<pubsubs, objects, built, nreg, req, resp, trace>>

\* limit bounds the calls made so far.
NewPubsub(name, limit) ==
    /\ Idle
    /\ Len(objects) < limit
    /\ objects' = Append(objects, [name |-> name, entries |-> <<>>])
    /\ pubsubs' = [n \in DOMAIN pubsubs \cup {name} |->
                     IF n = name THEN Len(objects) + 1 ELSE pubsubs[n]]
    /\ UNCHANGED <<handler, built, nreg, req, resp, trace>>

RegisterMessageHandler(id, topic, options) ==
    /\ Idle
    /\ nreg < MaxEntries
    /\ id \in DOMAIN objects
    /\ objects' = [objects EXCEPT ![id].entries =
                     Append(@, pubsubEntry(objects[id], topic, options, nreg + 1))]
    /\ nreg' = nreg + 1
    /\ UNCHANGED <<pubsubs, handler, built, req, resp, trace>>

HttpHandler ==
    /\ Idle
    /\ \E o \in MapOrders(pubsubs) :
         LET list == pubsubEntriesWithRoutes(objects, o)
         IN  built' = IF HasDuplicateRoute(list)
                      THEN [state |-> "panic", routes |-> NoRoutes, seen |-> Svc]
                      ELSE [state |-> "ok", routes |-> RoutesOf(list), seen |-> Svc]
    /\ UNCHANGED <<pubsubs, objects, handler, nreg, req, resp, trace>>

\* As ServeHTTP, but with the invocation handler that was set when
\* HttpHandler() was called.
ServeHTTPHandlerAtBuild(r, rets) ==
    /\ Idle
    /\ built.state = "ok"
    /\ \E c \in ChoicesFor(Svc, built.routes, r, rets) :
         LET s == makeInvocationRequestInterceptor([Svc EXCEPT !.handler = built.seen.handler],
                                                   built.routes, r, c)
         IN  /\ req' = r
             /\ resp' = s.w
             /\ trace' = s.t
    /\ UNCHANGED <<pubsubs, objects, handler, built, nreg>>

\* One request served by the handler built last; rets is what a callback
\* may return.
ServeHTTP(r, rets) ==
    /\ Idle
    /\ built.state = "ok"
    /\ \E c \in ChoicesFor(Svc, built.routes, r, rets) :
         LET s == makeInvocationRequestInterceptor(Svc, built.routes, r, c)
         IN  /\ req' = r
             /\ resp' = s.w
             /\ trace' = s.t
    /\ UNCHANGED <<pubsubs, objects, handler, built, nreg>>

\* The caller has read the response.
Finish ==
    /\ ~Idle
    /\ req' = NoRequest
    /\ resp' = NoResponse
    /\ trace' = NoTrace
    /\ UNCHANGED <<pubsubs, objects, handler, built, nreg>>

(***************************************************************************)
(* Spec: the registry is filled, handlers are built and requests served,   *)
(* in any order.                                                           *)
(***************************************************************************)
Next ==
    \/ \E name \in Names : NewPubsub(name, MaxPubsubs)
    \/ \E id \in DOMAIN objects, topic \in Topics, options \in TestOptions :
         RegisterMessageHandler(id, topic, options)
    \/ HttpHandler
    \/ Idle /\ \E r \in Requests : ServeHTTP(r, SomeReturns)
    \/ Finish

Spec == Init /\ [][Next]_vars

(***************************************************************************)
(* SpecInvocation: one subscription or none is registered at start-up;     *)
(* then invocation handlers are set, handlers are built and requests with  *)
(* and without the invocation headers are served, in any order.            *)
(***************************************************************************)
\* The registry after NewPubsub(name) and one RegisterMessageHandler.
OneSubscription(name, topic, options) ==
    <<[name |-> name,
       entries |-> <<pubsubEntry([name |-> name], topic, options, 1)>>]>>

InitInvocation ==
    /\ \/ /\ pubsubs = [n \in {} |-> 0]
          /\ objects = <<>>
          /\ nreg = 0
       \/ /\ pubsubs = [n \in {"servicebus"} |-> 1]
          /\ \E options \in PubsubOptions :
               objects = OneSubscription("servicebus", "order", options)
          /\ nreg = 1
    /\ handler = NilHandler
    /\ built = NotBuilt
    /\ req = NoRequest
    /\ resp = NoResponse
    /\ trace = NoTrace

NextInvocation ==
    \/ \E h \in Handlers \cup {NilHandler} : SetInvocationHandler(h)
    \/ HttpHandler
    \/ Idle /\ \E r \in InvocationRequests : ServeHTTP(r, SomeReturns)
    \/ Finish

SpecInvocation == InitInvocation /\ [][NextInvocation]_vars

(***************************************************************************)
(* SpecDecode: one subscription ("servicebus", "order") is registered with *)
(* any options and the handler is built; then requests to its route are    *)
(* served, with every content type and body of the model.                  *)
(***************************************************************************)
Absent == "<absent>"

\* The members of an envelope: each is absent or has one of a few values.
EnvelopeChoices ==
    [id : {Absent, "1234-5678"},
     source : {Absent, "test-case"},
     type : {Absent, "test-event"},
     specversion : {Absent, "1.0", "0.3"},
     datacontenttype : {Absent, "", "application/json", "text/plain"},
     data : {Absent, "{\"dummy\":123}"},
     data_base64 : {Absent, "aGVsbG8=", "!!!"},
     pubsubname : {Absent, "servicebus", "Servicebus"},
     topic : {"order", "test-topic"}]

Members(c) == [k \in {k \in DOMAIN c : c[k] # Absent} |-> c[k]]

\* The well-formed envelope with the optional members of time and tracing.
TimedEnvelopes ==
    {WellFormed("servicebus", "order") @@ [time |-> t, traceid |-> "trace-1"] :
        t \in {"2023-04-05T06:07:08Z", "yesterday"}}

Envelopes == {Members(c) : c \in EnvelopeChoices} \cup TimedEnvelopes

Bodies ==
    {UnreadableBody, Bytes("hello"), JsonNull, JsonArray, JsonBadMember}
    \cup {JsonObject(env) : env \in Envelopes}

\* Content-Type absent, the cloud-event type, or another; with and without a
\* metadata header of two values.
DecodeHeaderSets ==
    {ct @@ md :
        ct \in {NoHeaders, CloudEventContentType,
                [x \in {"Content-Type"} |-> <<"application/json">>]},
        md \in {NoHeaders, [x \in {"Metadata.Tenant"} |-> <<"acme", "other">>]}}

SubscribedPath == messageHandlerRoutePrefix \o <<"servicebus", "order">>

DecodeRequests ==
    {[Method |-> "POST", Path |-> SubscribedPath, Header |-> h, Body |-> b] :
        h \in DecodeHeaderSets, b \in Bodies}
    \cup {[Method |-> "GET", Path |-> SubscribePath, Header |-> NoHeaders, Body |-> Bytes("")]}

InitDecode ==
    /\ pubsubs = [n \in {"servicebus"} |-> 1]
    /\ \E options \in PubsubOptions :
         objects = OneSubscription("servicebus", "order", options)
    /\ nreg = 1
    /\ handler = NilHandler
    /\ built = [state |-> "ok", routes |-> RoutesOf(pubsubEntriesWithRoutes(objects, <<1>>)),
                seen |-> [pubsubs |-> pubsubs, objects |-> objects, handler |-> NilHandler]]
    /\ req = NoRequest
    /\ resp = NoResponse
    /\ trace = NoTrace

NextDecode ==
    \/ Idle /\ \E r \in DecodeRequests : ServeHTTP(r, CallbackReturns)
    \/ Finish

SpecDecode == InitDecode /\ [][NextDecode]_vars

(***************************************************************************)
(* SpecReplace: the source "servicebus" got a subscription to "order" and  *)
(* was then replaced by a second NewPubsub("servicebus"); from there on    *)
(* the operations of Spec, with one more source.                           *)
(***************************************************************************)
\* The registry after NewPubsub(name), one RegisterMessageHandler on it, and
\* NewPubsub(name) again.
ReplacedSource(name, topic, options) ==
    OneSubscription(name, topic, options) \o <<[name |-> name, entries |-> <<>>]>>

InitReplace ==
    /\ pubsubs = [n \in {"servicebus"} |-> 2]
    /\ \E options \in TestOptions :
         objects = ReplacedSource("servicebus", "order", options)
    /\ nreg = 1
    /\ handler = NilHandler
    /\ built = NotBuilt
    /\ req = NoRequest
    /\ resp = NoResponse
    /\ trace = NoTrace

NextReplace ==
    \/ \E name \in Names : NewPubsub(name, MaxPubsubs + 1)
    \/ \E id \in DOMAIN objects, topic \in Topics, options \in TestOptions :
         RegisterMessageHandler(id, topic, options)
    \/ HttpHandler
    \/ Idle /\ \E r \in Requests : ServeHTTP(r, SomeReturns)
    \/ Finish

SpecReplace == InitReplace /\ [][NextReplace]_vars

(***************************************************************************)
(* The claims.  A response is looked at while it is outstanding (~Idle);   *)
(* the registry, the invocation handler and the built handler do not       *)
(* change between the serving of a request and Finish.                     *)
(***************************************************************************)
\* The request carries both invocation headers, whatever their values.
CarriesBoth(r) ==
    "Dapr-Caller-App-Id" \in DOMAIN r.Header /\ "Dapr-Callee-App-Id" \in DOMAIN r.Header

\* C1: every response to a request that carries both invocation headers has
\* the header X-Daprsvc-Invocation: 1, with or without a registered
\* invocation handler, for every method and path.
C1_MarkerOnEveryInvocation ==
    (~Idle /\ CarriesBoth(req)) => resp.Marker = "1"

C1_Witness ==
    /\ ~Idle /\ CarriesBoth(req) /\ handler = NilHandler
    /\ req.Method = "POST" /\ req.Path \in DOMAIN built.routes
    /\ resp.Marker = "1"

\* C2: with no invocation handler registered, a request that carries both
\* invocation headers is answered 404 with the marker header, on every path
\* and method, and no subscription callback is called.
C2_NoHandlerNotFound ==
    (~Idle /\ CarriesBoth(req) /\ handler = NilHandler)
        => /\ resp.Status = 404
           /\ resp.Marker = "1"
           /\ trace.Calls = <<>>
           /\ ~trace.Decoded

C2_Witness ==
    /\ ~Idle /\ CarriesBoth(req) /\ handler = NilHandler
    /\ req.Method = "POST" /\ req.Path \in DOMAIN built.routes
    /\ built.routes[req.Path].options.NoCloudEvent
    /\ resp.Status = 404

\* C3: with an invocation handler registered, a request that carries both
\* invocation headers is given to that handler exactly once, the status and
\* body of the response are what the handler wrote, and the router is not
\* called.
C3_HandlerResponseForwarded ==
    (~Idle /\ CarriesBoth(req) /\ handler # NilHandler)
        => /\ Len(trace.Invocations) = 1
           /\ trace.Invocations[1].handler = handler
           /\ resp.Status = trace.Invocations[1].status
           /\ resp.Body = IF trace.Invocations[1].body = ""
                          THEN EmptyBody
                          ELSE TextBody(<<trace.Invocations[1].body>>)
           /\ trace.Routed = 0
           /\ trace.Calls = <<>>

C3_Witness ==
    /\ ~Idle /\ CarriesBoth(req) /\ handler = "mux1"
    /\ req.Path \in DOMAIN built.routes
    /\ resp.Status = 200 /\ resp.Body = TextBody(<<"Hello">>)

\* C4: a request is treated as a service invocation exactly when both
\* invocation headers are present, whatever their values; a request that
\* lacks one of them goes to the router only: the invocation handler is not
\* called and the marker header is not set.
C4_ClassifiedByPresence ==
    ~Idle =>
        /\ CarriesBoth(req) <=> trace.Routed = 0
        /\ CarriesBoth(req) <=> resp.Marker = "1"
        /\ ~CarriesBoth(req) => (trace.Routed = 1 /\ trace.Invocations = <<>>)
        /\ (CarriesBoth(req) /\ handler # NilHandler) => Len(trace.Invocations) = 1

C4_Witness ==
    /\ ~Idle /\ handler # NilHandler
    /\ CarriesBoth(req)
    /\ req.Header["Dapr-Caller-App-Id"] = <<"">>
    /\ req.Header["Dapr-Callee-App-Id"] = <<"">>
    /\ Len(trace.Invocations) = 1
    /\ trace.Routed = 0

\* The request was given to the callback of a subscription.
CallbackCalled == ~Idle /\ Len(trace.Calls) = 1

JsonMember(body, name) == {body.items[i][2] : i \in {i \in DOMAIN body.items : body.items[i][1] = name}}

\* C5: the result of the callback decides the response: Success gives 200
\* and {"status":"SUCCESS"}, Retry gives 500 and a JSON object whose status is
\* RETRY, Drop gives 400 and a JSON object whose status is DROP; the
\* Content-Type is application/json in the three cases.
C5_ResultDecidesResponse ==
    CallbackCalled =>
        LET ctor == trace.Calls[1].ret.ctor
        IN  /\ resp.ContentType = "application/json"
            /\ resp.Body.kind = "object"
            /\ ctor = "Success" =>
                 (resp.Status = 200 /\ resp.Body.items = <<<<"status", "SUCCESS">>>>)
            /\ ctor = "Retry" =>
                 (resp.Status = 500 /\ JsonMember(resp.Body, "status") = {"RETRY"})
            /\ ctor = "Drop" =>
                 (resp.Status = 400 /\ JsonMember(resp.Body, "status") = {"DROP"})

C5_Witness ==
    /\ CallbackCalled
    /\ trace.Calls[1].ret.ctor = "Drop"
    /\ ~built.routes[req.Path].options.NoCloudEvent
    /\ resp.Status = 400
    /\ resp.ContentType = "application/json"

\* C6: for a Retry or Drop result the body has an "error" member exactly when
\* the callback passed an error: a nil error gives {"status":"RETRY"} or
\* {"status":"DROP"} alone; otherwise "error" is the message of the error.
C6_ErrorMemberIffErrorPassed ==
    (CallbackCalled /\ trace.Calls[1].ret.ctor \in {"Retry", "Drop"}) =>
        LET ret == trace.Calls[1].ret
        IN  /\ ret.arg.isNil => JsonMember(resp.Body, "error") = {}
            /\ ~ret.arg.isNil => JsonMember(resp.Body, "error") = {ret.arg.msg}
            /\ ret.arg.isNil =>
                 resp.Body.items = <<<<"status", IF ret.ctor = "Retry" THEN "RETRY" ELSE "DROP">>>>

\* A subscription (name, topic) was registered on some pubsub object, or the
\* built handler has its route.
Subscribed(name, topic) ==
    \/ \E id \in DOMAIN objects : \E i \in DOMAIN objects[id].entries :
         objects[id].entries[i].pubsubName = name /\ objects[id].entries[i].topic = topic
    \/ messageHandlerRoutePrefix \o <<name, topic>> \in DOMAIN built.routes

\* C7: a POST to /message/{source}/{topic} with no subscription of that source
\* and topic is answered 404; nothing is decoded and no callback is called.
C7_UnknownSubscriptionNotFound ==
    (~Idle /\ req.Method = "POST" /\ req.Path \in MessagePaths
           /\ ~Subscribed(req.Path[2], req.Path[3]))
        => /\ resp.Status = 404
           /\ ~trace.Decoded
           /\ trace.Calls = <<>>

\* The request went to the route of a subscription that expects a cloud event.
ToCloudEventSubscription ==
    /\ ~Idle
    /\ req.Method = "POST"
    /\ req.Path \in DOMAIN built.routes
    /\ ~built.routes[req.Path].options.NoCloudEvent

HasCloudEventContentType(r) ==
    "Content-Type" \in DOMAIN r.Header /\ r.Header["Content-Type"][1] = "application/cloudevents+json"

\* The envelope is addressed to the subscription e.
AddressedTo(env, e) ==
    /\ "pubsubname" \in DOMAIN env /\ env["pubsubname"] = e.pubsubName
    /\ "topic" \in DOMAIN env /\ env["topic"] = e.topic

HasSpecversion10(env) == "specversion" \in DOMAIN env /\ env["specversion"] = "1.0"

\* The declared content type is not JSON.
DeclaresNonJson(env) == "datacontenttype" \in DOMAIN env /\ env["datacontenttype"] = "text/plain"

\* The request ended as a decode failure.
Rejected ==
    /\ resp.Status = 400
    /\ resp.ContentType = "text/plain"
    /\ resp.Body.kind = "text"
    /\ trace.Calls = <<>>

\* One of the decode failures of a cloud-event subscription e.
DecodeFailure(r, e) ==
    \/ ~HasCloudEventContentType(r)
    \/ r.Body.kind \in {"bytes", "array", "badmember"}
    \/ r.Body.kind = "null"
    \/ /\ r.Body.kind = "object"
       /\ \/ ~HasSpecversion10(r.Body.env)
          \/ ~AddressedTo(r.Body.env, e)
          \/ /\ DeclaresNonJson(r.Body.env)
             /\ "data_base64" \in DOMAIN r.Body.env
             /\ r.Body.env["data_base64"] = "!!!"
          \/ /\ DeclaresNonJson(r.Body.env)
             /\ "data_base64" \notin DOMAIN r.Body.env

\* C8: for a subscription that expects a cloud event, every decode failure
\* (a request Content-Type other than application/cloudevents+json, a body
\* that is not a JSON object, a specversion other than "1.0", a pubsubname or
\* topic other than the subscription's, malformed data_base64 under a content
\* type that is not JSON, a content type that is not JSON without
\* data_base64) is answered 400 with Content-Type text/plain, and the callback
\* is not called.
C8_DecodeFailureRejected ==
    (ToCloudEventSubscription /\ DecodeFailure(req, built.routes[req.Path])) => Rejected

C8_Witness ==
    /\ ToCloudEventSubscription
    /\ HasCloudEventContentType(req)
    /\ req.Body.kind = "object"
    /\ HasSpecversion10(req.Body.env)
    /\ AddressedTo(req.Body.env, built.routes[req.Path])
    /\ DeclaresNonJson(req.Body.env)
    /\ "data_base64" \notin DOMAIN req.Body.env
    /\ "data" \in DOMAIN req.Body.env
    /\ Rejected

\* The request passes every check that comes before the data of the envelope
\* is looked at.
PassesEnvelopeChecks ==
    /\ ToCloudEventSubscription
    /\ HasCloudEventContentType(req)
    /\ req.Body.kind = "object"
    /\ HasSpecversion10(req.Body.env)
    /\ AddressedTo(req.Body.env, built.routes[req.Path])

\* C9: for a subscription that expects a cloud event, an envelope whose
\* content type is JSON-like (datacontenttype absent, empty or a JSON type)
\* and that has no data member is a decode failure: 400 in plain text, and
\* the callback is not called, with or without data_base64.
C9_MissingDataRejected ==
    (PassesEnvelopeChecks /\ ~DeclaresNonJson(req.Body.env) /\ "data" \notin DOMAIN req.Body.env)
        => Rejected

\* C10: for a subscription that expects a cloud event, an envelope that lacks
\* one of id, source, specversion, type is a decode failure (400 in plain
\* text, callback not called), also when its specversion is "1.0" and it is
\* addressed to the subscription.  (The envelope has its data, so the
\* decoder gets as far as the callback.)
C10_MissingRequiredMemberRejected ==
    (/\ ToCloudEventSubscription
     /\ HasCloudEventContentType(req)
     /\ req.Body.kind = "object"
     /\ AddressedTo(req.Body.env, built.routes[req.Path])
     /\ "data" \in DOMAIN req.Body.env
     /\ \E k \in {"id", "source", "specversion", "type"} : k \notin DOMAIN req.Body.env)
        => Rejected

\* A header name without its "metadata." prefix.
StripMetadataPrefix(key) ==
    IF key = "Metadata.Tenant" THEN "Tenant"
    ELSE IF key = "Metadata.Ttl" THEN "Ttl"
    ELSE key

\* C11: the Message given to the callback has one metadata entry for every
\* request header whose name starts with "metadata." and for no other header;
\* the key of the entry is the header name without the "metadata." prefix and
\* its value is the first value of the header.
C11_MetadataKeyedByRemainder ==
    CallbackCalled =>
        LET md == trace.Calls[1].msg.Metadata
            hs == {k \in DOMAIN req.Header : HasMetadataPrefix(k)}
        IN  /\ DOMAIN md = {StripMetadataPrefix(k) : k \in hs}
            /\ \A k \in hs : md[StripMetadataPrefix(k)] = req.Header[k][1]

\* The request went to the route of a subscription registered with
\* NoCloudEvent.
ToNoCloudEventSubscription ==
    /\ ~Idle
    /\ req.Method = "POST"
    /\ req.Path \in DOMAIN built.routes
    /\ built.routes[req.Path].options.NoCloudEvent

\* C12: for a subscription registered with NoCloudEvent, every POST to its
\* route whose body can be read reaches the callback, whatever the
\* Content-Type and the body: Message.Data is the request body, Id and
\* ContentType are empty, Fields and Trace are zero, and the response is that
\* of the callback's result, never a decode failure.
C12_NoCloudEventPassesBody ==
    (ToNoCloudEventSubscription /\ req.Body.kind # "readerr") =>
        /\ CallbackCalled
        /\ ~Rejected
        /\ resp = EncodeResult(ResultOf(trace.Calls[1].ret))
        /\ LET msg == trace.Calls[1].msg
           IN  /\ msg.Data = req.Body
               /\ msg.Id = ""
               /\ msg.ContentType = ""
               /\ msg.Fields = ZeroFields
               /\ msg.Trace = ZeroTrace

C12_Witness ==
    /\ ToNoCloudEventSubscription
    /\ "Content-Type" \notin DOMAIN req.Header
    /\ req.Body = JsonArray
    /\ CallbackCalled
    /\ trace.Calls[1].msg.Data = JsonArray
    /\ resp.Status = 200

\* The sources the map holds, and their subscriptions as <<source, index>>.
LiveSources == {pubsubs[n] : n \in DOMAIN pubsubs}

LiveSubscriptions ==
    UNION {{<<id, i>> : i \in DOMAIN objects[id].entries} : id \in LiveSources}

\* The descriptor the discovery document is to have for the subscription s.
ExpectedDescriptor(s) ==
    LET source == objects[s[1]].name
        e == objects[s[1]].entries[s[2]]
    IN  [pubsubname |-> source,
         topic |-> e.topic,
         route |-> <<"message", source, e.topic>>,
         metadata |-> IF e.options.RawPayload THEN <<<<"rawPayload", "true">>>> ELSE <<>>]

\* The request is GET /dapr/subscribe.
Discovery == ~Idle /\ req.Method = "GET" /\ req.Path = SubscribePath

\* C13: GET /dapr/subscribe answers 200 with Content-Type application/json
\* and a JSON array that has exactly one descriptor for each subscription of
\* the sources the registry holds ([] when there is none); a descriptor has
\* the pubsubname and topic of its subscription, the route
\* /message/{source}/{topic}, and the metadata {"rawPayload":"true"} when
\* RawPayload is set and {} otherwise.
C13_DiscoveryListsSubscriptions ==
    Discovery =>
        /\ resp.Status = 200
        /\ resp.ContentType = "application/json"
        /\ resp.Body.kind = "array"
        /\ Len(resp.Body.items) = Cardinality(LiveSubscriptions)
        /\ \A d \in {resp.Body.items[i] : i \in DOMAIN resp.Body.items}
                   \cup {ExpectedDescriptor(s) : s \in LiveSubscriptions} :
             Cardinality({i \in DOMAIN resp.Body.items : resp.Body.items[i] = d})
               = Cardinality({s \in LiveSubscriptions : ExpectedDescriptor(s) = d})

C13_Witness ==
    /\ Discovery
    /\ Cardinality(LiveSources) = 2
    /\ Len(resp.Body.items) = 2
    /\ \E i, j \in DOMAIN resp.Body.items :
         /\ resp.Body.items[i].pubsubname # resp.Body.items[j].pubsubname
         /\ resp.Body.items[i].metadata = <<<<"rawPayload", "true">>>>
         /\ resp.Body.items[j].metadata = <<>>

\* The registry is as it was when HttpHandler() was called.
RegistryAsBuilt == built.seen.pubsubs = pubsubs /\ built.seen.objects = objects

\* The subscription s is one of the route the request went to.
OfRequestedRoute(objs, s) ==
    messageHandlerRoutePrefix \o <<objs[s[1]].name, objs[s[1]].entries[s[2]].topic>> = req.Path

\* C14: a second subscription of the same source and topic overwrites the
\* route, last write wins: HttpHandler() yields a handler whatever was
\* registered, and a POST to /message/{source}/{topic} calls the callback
\* registered last for that source and topic (callbacks are numbered in the
\* order of their registration).
C14_LastRegistrationWins ==
    /\ built.state # "panic"
    /\ (CallbackCalled /\ RegistryAsBuilt) =>
          \A s \in LiveSubscriptions :
              OfRequestedRoute(objects, s)
                  => objects[s[1]].entries[s[2]].messageHandler <= trace.Calls[1].callback

\* The sources the registry held when HttpHandler() was called, their
\* subscriptions, and the subscriptions of the sources replaced by then.
SeenSources == {built.seen.pubsubs[n] : n \in DOMAIN built.seen.pubsubs}

SeenSubscriptions(ids) ==
    UNION {{<<id, i>> : i \in DOMAIN built.seen.objects[id].entries} : id \in ids}

SeenLive == SeenSubscriptions(SeenSources)

SeenReplaced == SeenSubscriptions(DOMAIN built.seen.objects \ SeenSources)

\* The subscriptions made on a source the registry no longer holds.
ReplacedSubscriptions ==
    UNION {{<<id, i>> : i \in DOMAIN objects[id].entries} : id \in DOMAIN objects \ LiveSources}

\* C15: NewPubsub with a name that exists replaces the earlier source.  The
\* discovery document lists the subscriptions of the sources the registry
\* holds and no other; a handler built after the replacement never calls the
\* callback of a subscription of the replaced source, and answers 404 to a
\* POST to the route of such a subscription (unless a source the registry
\* held when the handler was built has a subscription of the same name and
\* topic).
C15_ReplacedSourceOrphaned ==
    /\ Discovery =>
          /\ Len(resp.Body.items) = Cardinality(LiveSubscriptions)
          /\ \A i \in DOMAIN resp.Body.items :
                resp.Body.items[i] \in {ExpectedDescriptor(s) : s \in LiveSubscriptions}
    /\ CallbackCalled =>
          trace.Calls[1].callback \notin
              {objects[s[1]].entries[s[2]].messageHandler : s \in ReplacedSubscriptions}
                  \ {built.seen.objects[s[1]].entries[s[2]].messageHandler : s \in SeenLive}
    /\ (/\ ~Idle
        /\ req.Method = "POST"
        /\ \E s \in SeenReplaced : OfRequestedRoute(built.seen.objects, s)
        /\ ~\E s \in SeenLive : OfRequestedRoute(built.seen.objects, s))
          => (resp.Status = 404 /\ trace.Calls = <<>>)

\* Which of Success(), Retry() and Drop() the result answers to.
KindsOf(mri) ==
    (IF Success(mri) THEN {"Success"} ELSE {})
        \cup (IF Retry(mri) THEN {"Retry"} ELSE {})
        \cup (IF Drop(mri) THEN {"Drop"} ELSE {})

InvalidResultResponse ==
    Response(400, "text/plain", TextBody(<<"Invalid message handler result.">>))

\* C17: a MessageResult built by MessageResultSuccess, MessageResultRetry or
\* MessageResultDrop answers to exactly one of Success(), Retry() and Drop(),
\* the one of its constructor; the response to it is never the "Invalid
\* message handler result." fallback.
C17_ConstructedResultHasOneKind ==
    CallbackCalled =>
        /\ KindsOf(ResultOf(trace.Calls[1].ret)) = {trace.Calls[1].ret.ctor}
        /\ resp # InvalidResultResponse
        /\ resp.ContentType # "text/plain"

C17_Witness ==
    /\ CallbackCalled
    /\ trace.Calls[1].ret = [ctor |-> "Drop", arg |-> NilError]
    /\ Drop(ResultOf(trace.Calls[1].ret))
    /\ resp.Status = 400
    /\ resp.ContentType = "application/json"

\* The descriptors GET /dapr/subscribe of the handler would list now.
Advertised ==
    LET body == writePubsubConfigData(objects, CHOOSE o \in MapOrders(pubsubs) : TRUE,
                                      messageHandlerRoutePrefix)
    IN  {body.items[i] : i \in DOMAIN body.items}

\* C18: when every NewPubsub and RegisterMessageHandler call was made before
\* HttpHandler(), a POST to a route the handler advertises is given to the
\* handler of a subscription with the advertised pubsubname and topic (it is
\* not answered by the router itself), and the Message its callback gets
\* carries that PubsubName and Topic.
C18_AdvertisedRoutesDispatch ==
    (~Idle /\ RegistryAsBuilt /\ req.Method = "POST") =>
        \A d \in Advertised :
            d.route = req.Path =>
                /\ trace.Decoded
                /\ resp.Status \notin {301, 307, 308, 404, 405}
                /\ CallbackCalled =>
                      /\ trace.Calls[1].msg.PubsubName = d.pubsubname
                      /\ trace.Calls[1].msg.Topic = d.topic
                      /\ \E s \in LiveSubscriptions :
                            /\ objects[s[1]].name = d.pubsubname
                            /\ objects[s[1]].entries[s[2]].topic = d.topic
                            /\ objects[s[1]].entries[s[2]].messageHandler
                                  = trace.Calls[1].callback

C18_Witness ==
    /\ ~Idle /\ RegistryAsBuilt /\ req.Method = "POST"
    /\ req.Path = <<"message", "Servicebus", "order">>
    /\ <<"message", "servicebus", "order">> \in {d.route : d \in Advertised}
    /\ req.Path \in {d.route : d \in Advertised}
    /\ CallbackCalled
    /\ trace.Calls[1].msg.PubsubName = "Servicebus"
    /\ trace.Calls[1].msg.Topic = "order"

\* The subscriptions registered after HttpHandler() was called, on sources
\* the registry holds.
LateSubscriptions ==
    {s \in LiveSubscriptions :
        \/ s[1] \notin DOMAIN built.seen.objects
        \/ s[2] \notin DOMAIN built.seen.objects[s[1]].entries}

\* C19: a handler routes the subscriptions that existed when HttpHandler()
\* was called, and its discovery document is made from the registry when the
\* request is served: a subscription registered after HttpHandler() returned
\* is listed by GET /dapr/subscribe, a POST to its route through that handler
\* is answered 404 (unless a subscription of the same source and topic
\* existed when the handler was built), and its callback is not called.
C19_LateSubscriptionListedNotRouted ==
    built.state = "ok" =>
        /\ Discovery =>
              \A s \in LateSubscriptions :
                  \E i \in DOMAIN resp.Body.items : resp.Body.items[i] = ExpectedDescriptor(s)
        /\ CallbackCalled =>
              trace.Calls[1].callback \notin
                  {objects[s[1]].entries[s[2]].messageHandler : s \in LateSubscriptions}
        /\ (/\ ~Idle
            /\ req.Method = "POST"
            /\ \E s \in LateSubscriptions : OfRequestedRoute(objects, s)
            /\ ~\E s \in SeenLive : OfRequestedRoute(built.seen.objects, s))
              => (resp.Status = 404 /\ trace.Calls = <<>>)

\* C20: the invocation handler is looked up when a request is served: a
\* request that carries both invocation headers is served by the handler
\* SetInvocationHandler was called with last, before or after HttpHandler(),
\* and by the 404 response when the last call set nil or no call was made.
C20_HandlerLookedUpAtRequestTime ==
    (~Idle /\ CarriesBoth(req)) =>
        IF handler = NilHandler
        THEN resp.Status = 404 /\ trace.Invocations = <<>>
        ELSE /\ Len(trace.Invocations) = 1
             /\ trace.Invocations[1].handler = handler
             /\ resp.Status = trace.Invocations[1].status

C20_Witness ==
    /\ ~Idle /\ CarriesBoth(req)
    /\ built.seen.handler = "mux1"
    /\ handler = "mux2"
    /\ Len(trace.Invocations) = 1
    /\ trace.Invocations[1].handler = "mux2"

\* The request was given to the message handler of a subscription.
ToSubscription == ~Idle /\ req.Method = "POST" /\ trace.Decoded

\* C21: for every POST a subscription's message handler gets, the callback
\* is called at most once, and once exactly when the body was read and the
\* decoding succeeded; exactly one status is written, and after a decode
\* failure it is written without the callback having been called.
C21_OneCallbackOneStatus ==
    ToSubscription =>
        LET d == Decode(built.routes[req.Path], req)
        IN  /\ Len(trace.Calls) <= 1
            /\ Len(trace.Calls) = 1 <=> (req.Body.kind # "readerr" /\ d.outcome = "ok")
            /\ ~resp.Panicked
            /\ resp.Status \in {200, 400, 500}
            /\ d.outcome # "ok" => (trace.Calls = <<>> /\ resp.Status = 400)

\* The registry with the NoCloudEvent option of every subscription negated.
WithNoCloudEventNegated(objs) ==
    [id \in DOMAIN objs |->
        [objs[id] EXCEPT !.entries =
            [i \in DOMAIN @ |-> [@[i] EXCEPT !.options.NoCloudEvent = ~@]]]]

\* C22: the two options are independent.  The response to a POST and what
\* the callback gets are what they would be with RawPayload negated, and the
\* discovery document is what it would be with NoCloudEvent negated; a
\* subscription with RawPayload and without NoCloudEvent is advertised with
\* rawPayload "true" and rejects a body that comes without the cloud-event
\* content type with 400.
C22_OptionsIndependent ==
    /\ ToSubscription =>
          LET entry == built.routes[req.Path]
              other == [entry EXCEPT !.options.RawPayload = ~@]
          IN  /\ \E ret \in CallbackReturns :
                    /\ makeEventMessageHandler(other, req, ret).w = resp
                    /\ makeEventMessageHandler(other, req, ret).t.Calls = trace.Calls
              /\ (entry.options.RawPayload /\ ~entry.options.NoCloudEvent
                     /\ req.Body.kind # "readerr" /\ ~HasCloudEventContentType(req))
                    => (Rejected /\ resp.Status = 400)
    /\ Discovery =>
          /\ \E o \in MapOrders(pubsubs) :
                resp.Body = writePubsubConfigData(WithNoCloudEventNegated(objects), o,
                                                  messageHandlerRoutePrefix)
          /\ \A i \in DOMAIN resp.Body.items :
                \E s \in LiveSubscriptions :
                    /\ resp.Body.items[i].topic = objects[s[1]].entries[s[2]].topic
                    /\ resp.Body.items[i].metadata =
                          IF objects[s[1]].entries[s[2]].options.RawPayload
                          THEN <<<<"rawPayload", "true">>>> ELSE <<>>

C22_Witness ==
    /\ ToSubscription
    /\ built.routes[req.Path].options = [RawPayload |-> TRUE, NoCloudEvent |-> FALSE]
    /\ "Content-Type" \notin DOMAIN req.Header
    /\ req.Body = Bytes("hello")
    /\ Rejected
    /\ resp.Status = 400

====
